---------------------------- MODULE Spec2Model ----------------------------
(***************************************************************************)
(* Model of src/cosmos-visualization.tsx: the CosmosVisualization React    *)
(* component.  The state is the component's React state (loading, error,   *)
(* starCount, isFlying), its refs (mountRef, rendererRef, frameRef,        *)
(* starsGroupRef, controlsRef) and the position of the asynchronous        *)
(* createStarVisualization / loadStarData call.  One action per effect,    *)
(* promise continuation, animation frame and event handler.                *)
(*                                                                         *)
(* Numbers.  JavaScript numbers are IEEE doubles.  They are modelled in    *)
(* fixed point with correctly rounded (round-to-nearest) arithmetic:       *)
(*   - zoom and targetZoom in units of 5 scene units, so that the clamp    *)
(*     range [10, 2000] is [2, 400];                                       *)
(*   - rotation angles in units of 0.0001 rad, pointer positions in       *)
(*     pixels;                                                             *)
(*   - B-V indices and colour channels in units of 0.1;                    *)
(*   - velocity components in units of 0.01, so that the 0.1 threshold of  *)
(*     animate is 10 units and sub-threshold residues are representable.   *)
(* Math.random() results that no modelled property reads (star ra, dec,    *)
(* mag, bv, spectral class, nebula particles) are left out of the records. *)
(* React's useState setters are modelled as assignments.                   *)
(***************************************************************************)
EXTENDS Integers, Sequences, FiniteSets, TLC

(***************************************************************************)
(* Bounds of the model (not program constants).                            *)
(***************************************************************************)
\* longest array of star records a modelled data.json holds
MaxFileStars == 2
\* number of distinct star records a modelled data.json can mention
MaxStarId == 2
\* largest magnitude of a B-V index handed to getStarColor, in units of 0.1
MaxBv == 20
\* longest spectral class string handed to getStarColor
MaxClassLen == 2
\* largest magnitude of targetRotationY the model follows, in quarter turns
MaxYaw == 2

(***************************************************************************)
(* Program constants.                                                      *)
(***************************************************************************)
\* controlsRef initial zoom / targetZoom, 500 (lines 48-49), in units of 5
InitialZoom == 100
\* handleWheel clamp, Math.max(10, ...) (line 514), in units of 5
ZoomMin == 2
\* handleWheel clamp, Math.min(2000, ...) (line 514), in units of 5
ZoomMax == 400
\* baseSpeed: 5 (line 52), in units of 0.01
baseSpeed == 500
\* acceleratedSpeed: 50 (line 53), in units of 0.01
acceleratedSpeed == 5000
\* Math.PI / 2 (line 488), in units of 0.0001 rad
HalfPi == 15708
\* the rotation per pixel of drag, 0.01 rad (lines 484-485), in units of 0.0001 rad
PixelTurn == 100
\* velocity.length() < 0.1 (lines 416 and 437), in units of 0.01
VelThreshold == 10
\* for (let i = 0; i < 2000; i++) (line 153)
GeneratedStars == 2000

(***************************************************************************)
(* Fixed-point helpers.                                                    *)
(***************************************************************************)
\* n / d rounded to the nearest integer (ties away from zero), d > 0
RoundDiv(n, d) ==
    IF n >= 0 THEN (2 * n + d) \div (2 * d)
              ELSE -((2 * (-n) + d) \div (2 * d))

Max2(a, b) == IF a >= b THEN a ELSE b
Min2(a, b) == IF a <= b THEN a ELSE b

(***************************************************************************)
(* Star records (interface StarData, lines 4-16).  A record of data.json   *)
(* is an object with an id, or the JSON value null (an array element that  *)
(* is not an object at all).                                               *)
(***************************************************************************)
StarRec(k) == [kind |-> "star", name |-> "", hasId |-> TRUE, id |-> k]
NullElem == [kind |-> "null", name |-> "", hasId |-> FALSE, id |-> 0]
FileElems == {StarRec(k) : k \in 1..MaxStarId} \cup {NullElem}

RECURSIVE SeqsUpTo(_, _)
SeqsUpTo(S, n) ==
    IF n = 0 THEN {<<>>}
    ELSE LET shorter == SeqsUpTo(S, n - 1)
         IN  shorter \cup {Append(s, e) : s \in {t \in shorter : Len(t) = n - 1}, e \in S}

FileLists == SeqsUpTo(FileElems, MaxFileStars)

(***************************************************************************)
(* JSON values as JSON.parse (line 180) returns them.  A member is the     *)
(* value of a property of the top-level object: undefined when the key is  *)
(* absent.                                                                 *)
(***************************************************************************)
Member(k, l) == [kind |-> k, items |-> l]
Undefined == Member("undefined", <<>>)
Members ==
    {Undefined, Member("null", <<>>), Member("number", <<>>)}
        \cup {Member("array", l) : l \in FileLists}

JArray(l) == [kind |-> "array", items |-> l, stars |-> Undefined, catalog |-> Undefined]
JObject(s, c) == [kind |-> "object", items |-> <<>>, stars |-> s, catalog |-> c]
JPrimitive(k) == [kind |-> k, items |-> <<>>, stars |-> Undefined, catalog |-> Undefined]
JsonValues ==
    {JArray(l) : l \in FileLists}
        \cup {JObject(s, c) : s \in Members, c \in Members}
        \cup {JPrimitive("null"), JPrimitive("number"), JPrimitive("string")}

\* Array.isArray(v)
IsArray(v) == v.kind = "array"
\* JavaScript truthiness of a member value (the number modelled is non-zero)
Truthy(v) == v.kind \in {"number", "array"}

(***************************************************************************)
(* The file environment: window.fs (line 178), the outcome of readFile     *)
(* (line 179) and the text it returns.  A text is well formed JSON with    *)
(* the value doc, or malformed (JSON.parse throws a SyntaxError).          *)
(***************************************************************************)
NoFs == [available |-> FALSE, rejects |-> FALSE, wellFormed |-> FALSE, doc |-> JPrimitive("null")]
ReadRejects == [available |-> TRUE, rejects |-> TRUE, wellFormed |-> FALSE, doc |-> JPrimitive("null")]
Malformed == [available |-> TRUE, rejects |-> FALSE, wellFormed |-> FALSE, doc |-> JPrimitive("null")]
Doc(v) == [available |-> TRUE, rejects |-> FALSE, wellFormed |-> TRUE, doc |-> v]
FsEnvs == {NoFs, ReadRejects, Malformed} \cup {Doc(v) : v \in JsonValues}


(***************************************************************************)
(* generateSampleStarData (lines 133-166): the ten famous stars, then      *)
(* 2000 generated ones with id i + 10 and name Star-i.                     *)
(***************************************************************************)
famousStars ==
    <<"Sirius", "Canopus", "Arcturus", "Vega", "Capella",
      "Rigel", "Procyon", "Betelgeuse", "Achernar", "Altair">>

generateSampleStarData ==
    [i \in 1..(Len(famousStars) + GeneratedStars) |->
        IF i <= Len(famousStars)
        THEN [kind |-> "star", name |-> famousStars[i], hasId |-> FALSE, id |-> 0]
        ELSE LET n == i - Len(famousStars) - 1
             IN  [kind |-> "star", name |-> "Star-" \o ToString(n),
                  hasId |-> TRUE, id |-> n + Len(famousStars)]]

(***************************************************************************)
(* loadStarData (lines 169-211).                                           *)
(***************************************************************************)
Threw == [threw |-> TRUE, data |-> <<>>]
Got(l) == [threw |-> FALSE, data |-> l]

\* ExtractStars with the unrecognized shapes read as an empty list
ExtractStarsLenient(parsed) ==
    IF IsArray(parsed) THEN Got(parsed.items)
    ELSE IF parsed.kind = "null" THEN Threw
    ELSE IF Truthy(parsed.stars) /\ IsArray(parsed.stars) THEN Got(parsed.stars.items)
    ELSE IF Truthy(parsed.catalog) /\ IsArray(parsed.catalog) THEN Got(parsed.catalog.items)
    ELSE Got(<<>>)

\* ExtractStars without the catalog branch
ExtractStarsNoCatalog(parsed) ==
    IF IsArray(parsed) THEN Got(parsed.items)
    ELSE IF parsed.kind = "null" THEN Threw
    ELSE IF Truthy(parsed.stars) /\ IsArray(parsed.stars) THEN Got(parsed.stars.items)
    ELSE Threw

\* "Handle different JSON structures" (lines 183-191).  Reading .stars of
\* null throws a TypeError; of a number or a string it gives undefined.
ExtractStars(parsed) ==
    IF IsArray(parsed) THEN Got(parsed.items)
    ELSE IF parsed.kind = "null" THEN Threw
    ELSE IF Truthy(parsed.stars) /\ IsArray(parsed.stars) THEN Got(parsed.stars.items)
    ELSE IF Truthy(parsed.catalog) /\ IsArray(parsed.catalog) THEN Got(parsed.catalog.items)
    ELSE Threw

\* the inner try block (lines 177-196): what it assigns to starData, or
\* that it threw into the catch of line 197
InnerTry(e) ==
    IF ~e.available THEN Threw
    ELSE IF e.rejects THEN Threw
    ELSE IF ~e.wellFormed THEN Threw
    ELSE ExtractStars(e.doc)

\* loadStarData without the finally block: loading is left as line 171 set it
loadStarDataNoFinally(e) ==
    LET r == InnerTry(e)
        data == IF r.threw THEN generateSampleStarData ELSE r.data
    IN  [starData |-> data, starCount |-> Len(data), error |-> "", loading |-> TRUE]

\* The React state and the resolved value once loadStarData has run to its
\* end.  The inner catch (lines 197-200) only logs and substitutes the
\* sample data; nothing between lines 171 and 203 outside the inner try can
\* throw, so the outer catch (lines 205-207) is never entered.
loadStarData(e) ==
    LET r == InnerTry(e)
        data == IF r.threw THEN generateSampleStarData ELSE r.data
    IN  [starData |-> data, starCount |-> Len(data), error |-> "", loading |-> FALSE]

(***************************************************************************)
(* starData.forEach (lines 279-322): one Points mesh per record, userData  *)
(* the record and its index.  Reading star.x of a null element throws a    *)
(* TypeError (line 283), which ends createStarVisualization; the meshes     *)
(* added before it stay in the group.                                      *)
(***************************************************************************)
FirstNull(data) ==
    LET nulls == {i \in 1..Len(data) : data[i].kind = "null"}
    IN  IF nulls = {} THEN 0 ELSE CHOOSE i \in nulls : \A j \in nulls : i <= j

\* the forEach skipping the records that carry no id
RenderablesOnlyWithId(data) ==
    LET n == IF FirstNull(data) = 0 THEN Len(data) ELSE FirstNull(data) - 1
        kept == SelectSeq([i \in 1..n |-> [star |-> data[i], index |-> i - 1]],
                          LAMBDA m : m.star.hasId)
    IN  kept

Renderables(data) ==
    LET n == IF FirstNull(data) = 0 THEN Len(data) ELSE FirstNull(data) - 1
    IN  [i \in 1..n |-> [star |-> data[i], index |-> i - 1]]

(***************************************************************************)
(* getStarColor (lines 84-120).  A spectral class is a string, kept as the *)
(* sequence of its characters; bv and spectralClass may be undefined.      *)
(***************************************************************************)
NoBv == [defined |-> FALSE, val |-> 0]
Bv(v) == [defined |-> TRUE, val |-> v]
NoClass == [defined |-> FALSE, chars |-> <<>>]
Class(cs) == [defined |-> TRUE, chars |-> cs]

\* String.prototype.toUpperCase on one character (line 105)
ToUpperCase(c) ==
    CASE c = "o" -> "O" [] c = "b" -> "B" [] c = "a" -> "A" [] c = "f" -> "F"
      [] c = "g" -> "G" [] c = "k" -> "K" [] c = "m" -> "M" [] c = "x" -> "X"
      [] OTHER -> c

\* the B-V bands (lines 88-100)
BvColor(v) ==
    IF v < -4 THEN <<6, 8, 10>>
    ELSE IF v < 0 THEN <<8, 9, 10>>
    ELSE IF v < 5 THEN <<10, 10, 10>>
    ELSE IF v < 10 THEN <<10, 10, 7>>
    ELSE IF v < 15 THEN <<10, 7, 4>>
    ELSE <<10, 5, 3>>

\* the switch on the spectral type letter (lines 106-115)
ClassColor(type) ==
    CASE type = "O" -> <<6, 8, 10>>
      [] type = "B" -> <<8, 9, 10>>
      [] type = "A" -> <<10, 10, 10>>
      [] type = "F" -> <<10, 10, 9>>
      [] type = "G" -> <<10, 10, 7>>
      [] type = "K" -> <<10, 7, 4>>
      [] type = "M" -> <<10, 5, 3>>
      [] OTHER -> <<10, 10, 10>>

\* 0.8 + Math.random() * 0.2 per channel (line 119): each in [0.8, 1.0)
DefaultColors == {<<r, g, b>> : r \in 8..9, g \in 8..9, b \in 8..9}

\* getStarColor with the type letter compared as written (no toUpperCase)
getStarColorCaseSensitive(bv, spectralClass) ==
    IF bv.defined THEN {BvColor(bv.val)}
    ELSE IF spectralClass.defined /\ spectralClass.chars # <<>>
         THEN {ClassColor(spectralClass.chars[1])}
    ELSE DefaultColors

\* the colours getStarColor can return
getStarColor(bv, spectralClass) ==
    IF bv.defined THEN {BvColor(bv.val)}
    ELSE IF spectralClass.defined /\ spectralClass.chars # <<>>
         THEN {ClassColor(ToUpperCase(spectralClass.chars[1]))}
    ELSE DefaultColors

\* the inputs drawn for getStarColor
BvInputs == {NoBv} \cup {Bv(v) : v \in (-MaxBv)..MaxBv}
ClassChars == {"O", "B", "A", "F", "G", "K", "M", "f", "k", "X", "5"}
ClassInputs == {NoClass} \cup {Class(cs) : cs \in SeqsUpTo(ClassChars, MaxClassLen)}
StarInputs == {[bv |-> b, spectralClass |-> c] : b \in BvInputs, c \in ClassInputs}
\* a record without bv and spectralClass, as the modelled data.json holds
PlainStar == [bv |-> NoBv, spectralClass |-> NoClass]

(***************************************************************************)
(* State.                                                                  *)
(***************************************************************************)
VARIABLES
    fsEnv,          \* the file environment of this run (an input)
    pc,             \* createStarVisualization: "mount", "awaitRead", "awaitLoad", "running", "crashed"
    mounted,        \* the component is mounted
    mountRef,       \* mountRef.current is the div (line 19)
    loading,        \* useState(true) (line 59)
    error,          \* useState('') (line 60)
    starCount,      \* useState(0) (line 58)
    isFlying,       \* useState(false) (line 62)
    starData,       \* the array loadStarData resolved with
    starsGroup,     \* starsGroupRef.current.children (lines 269-316)
    rendererRef,    \* a renderer was created (line 238)
    domAttached,    \* renderer.domElement is a child of the div (line 240)
    disposed,       \* renderer.dispose() was called (line 546)
    keyListeners,   \* keydown/keyup listeners are on window (lines 265-266)
    resizeListener, \* the resize listener is on window (line 533)
    frameRef,       \* frameRef.current holds a request id (line 356)
    rafPending,     \* an animate callback is scheduled with the browser
    zoom,           \* controls.zoom (line 48)
    targetZoom,     \* controls.targetZoom (line 49)
    velocity,       \* controls.velocity (line 50), <<x, y, z>> in 0.01 units
    isAccelerating, \* controls.isAccelerating (line 54)
    keys,           \* the codes k with controls.keys[k] true (line 55)
    targetRotationX,  \* controls.targetRotationX (line 44), in 0.0001 rad
    targetRotationY,  \* controls.targetRotationY (line 45), in 0.0001 rad
    currentRotationX, \* controls.currentRotationX (line 46), in 0.0001 rad
    currentRotationY, \* controls.currentRotationY (line 47), in 0.0001 rad
    cameraYaw,      \* camera orientation: quarter turns about the y axis
    orbitApplied,   \* the last frame ran lines 438-439: camera.position is orbitPosition
    starInput,      \* the bv and spectralClass of a record handed to getStarColor (line 302)
    starColor,      \* the colour getStarColor returned for it, <<>> before the call
    mouseDown,      \* controls.mouseDown (line 41)
    mouseX,         \* controls.mouseX (line 42), in pixels
    mouseY,         \* controls.mouseY (line 43), in pixels
    hoveredStar     \* the hoveredStar state (line 67): 0 for null, else the position
                    \* in starsGroup of the mesh whose userData it is

lifecycle == <<pc, mounted, mountRef, loading, error, starCount, starData, starsGroup,
               rendererRef, domAttached, disposed, keyListeners, resizeListener>>
loop == <<frameRef, rafPending>>
rotation == <<targetRotationX, targetRotationY, currentRotationX, currentRotationY>>
controls == <<zoom, targetZoom, velocity, isAccelerating, keys, isFlying,
              rotation, cameraYaw, orbitApplied>>
appearance == <<starInput, starColor>>
pointer == <<mouseDown, mouseX, mouseY, hoveredStar>>
vars == <<fsEnv, lifecycle, loop, controls, appearance, pointer>>

Zero == <<0, 0, 0>>

\* The state after the first render: the useState / useRef initial values
\* (lines 19-67); the effect of line 530 has not run yet.
InitState(envs, inputs) ==
    /\ fsEnv \in envs
    /\ starInput \in inputs
    /\ starColor = <<>>
    /\ mouseDown = FALSE
    /\ mouseX = 0
    /\ mouseY = 0
    /\ hoveredStar = 0
    /\ pc = "mount"
    /\ mounted = TRUE
    /\ mountRef = TRUE
    /\ loading = TRUE
    /\ error = ""
    /\ starCount = 0
    /\ isFlying = FALSE
    /\ starData = <<>>
    /\ starsGroup = <<>>
    /\ rendererRef = FALSE
    /\ domAttached = FALSE
    /\ disposed = FALSE
    /\ keyListeners = FALSE
    /\ resizeListener = FALSE
    /\ frameRef = FALSE
    /\ rafPending = FALSE
    /\ zoom = InitialZoom
    /\ targetZoom = InitialZoom
    /\ velocity = Zero
    /\ isAccelerating = FALSE
    /\ keys = {}
    /\ targetRotationX = 0
    /\ targetRotationY = 0
    /\ currentRotationX = 0
    /\ currentRotationY = 0
    /\ cameraYaw = 0
    /\ orbitApplied = FALSE

InitWith(envs) == InitState(envs, {PlainStar})

(***************************************************************************)
(* The frame computation of animate (lines 355-451).                       *)
(***************************************************************************)
Len2(v) == v[1] * v[1] + v[2] * v[2] + v[3] * v[3]
\* v.length() < 0.1
BelowThreshold(v) == Len2(v) < VelThreshold * VelThreshold

Held(k, a, b) == a \in k \/ b \in k

\* "Movement inputs" (lines 362-383)
MoveVector(k, acc) ==
    LET currentSpeed == IF acc THEN acceleratedSpeed ELSE baseSpeed
        on(a, b) == IF Held(k, a, b) THEN currentSpeed ELSE 0
    IN  << on("KeyD", "ArrowRight") - on("KeyA", "ArrowLeft"),
           on("KeyQ", "Space") - on("KeyE", "ControlLeft"),
           on("KeyS", "ArrowDown") - on("KeyW", "ArrowUp") >>

\* The camera basis (lines 387-394).  The camera is oriented by lookAt
\* (line 439) from the orbit position of angle currentRotationY; the model
\* keeps that yaw to the nearest quarter turn (HalfPi) with a
\* level pitch, so that the basis is integral.
YawOf(rotY) == RoundDiv(rotY, HalfPi) % 4
Forward(yaw) ==
    CASE yaw = 0 -> <<0, 0, -1>>
      [] yaw = 1 -> <<-1, 0, 0>>
      [] yaw = 2 -> <<0, 0, 1>>
      [] yaw = 3 -> <<1, 0, 0>>
\* right = cameraDirection x camera.up, with up = (0, 1, 0)
Right(yaw) == LET f == Forward(yaw) IN <<-f[3], 0, f[1]>>
Up == <<0, 1, 0>>

\* worldMovement (lines 397-400)
WorldMovement(mv, yaw) ==
    [i \in 1..3 |-> Forward(yaw)[i] * (-mv[3]) + Right(yaw)[i] * mv[1] + Up[i] * mv[2]]

\* velocity.lerp(acceleration, 0.1) (line 404)
Lerp(v, a) == [i \in 1..3 |-> v[i] + RoundDiv(a[i] - v[i], 10)]

\* Decelerate without the reset of lines 416-418
DecelerateNoReset(v) == [i \in 1..3 |-> RoundDiv(9 * v[i], 10)]

\* "Decelerate when no input" (lines 413-421)
Decelerate(v) ==
    LET d == [i \in 1..3 |-> RoundDiv(9 * v[i], 10)]
    IN  IF BelowThreshold(d) THEN Zero ELSE d

\* the velocity after the frame's update (lines 386-422)
FrameVelocity(k, acc, v, yaw) ==
    LET mv == MoveVector(k, acc)
    IN  IF mv # Zero THEN Lerp(v, WorldMovement(mv, yaw)) ELSE Decelerate(v)

\* the orbit test with the arrow keys counted like W, A, S and D
OrbitAppliesNoMoveKey(k, v) ==
    /\ k \cap {"KeyW", "KeyS", "KeyA", "KeyD",
               "ArrowUp", "ArrowDown", "ArrowLeft", "ArrowRight"} = {}
    /\ Len2(v) < VelThreshold * VelThreshold

\* the "Smooth rotation" block is entered (line 425)
NoWASD(k) == "KeyW" \notin k /\ "KeyS" \notin k /\ "KeyA" \notin k /\ "KeyD" \notin k

\* lines 425 and 437: the frame copies orbitPosition into camera.position
OrbitApplies(k, v) == NoWASD(k) /\ BelowThreshold(v)

\* current += (target - current) * 0.05 (lines 426-427)
SmoothRotation(cur, target) == cur + RoundDiv(target - cur, 20)

\* the smoothing with the gap left out: zoom += targetZoom * 0.1
SmoothZoomNoGap(z, tz) == z + RoundDiv(tz, 10)

\* controls.zoom += (controls.targetZoom - controls.zoom) * 0.1 (line 444)
SmoothZoom(z, tz) == z + RoundDiv(tz - z, 10)

\* One run of the body of animate on the controls and the camera.
FrameBody ==
    /\ velocity' = FrameVelocity(keys, isAccelerating, velocity, cameraYaw)
    /\ IF NoWASD(keys)
       THEN /\ currentRotationX' = SmoothRotation(currentRotationX, targetRotationX)
            /\ currentRotationY' = SmoothRotation(currentRotationY, targetRotationY)
       ELSE UNCHANGED <<currentRotationX, currentRotationY>>
    /\ orbitApplied' = OrbitApplies(keys, velocity')
    /\ cameraYaw' = IF orbitApplied' THEN YawOf(currentRotationY') ELSE cameraYaw
    /\ zoom' = SmoothZoom(zoom, targetZoom)
    /\ UNCHANGED <<targetZoom, isAccelerating, keys, isFlying, targetRotationX, targetRotationY>>

(***************************************************************************)
(* Actions.                                                                *)
(***************************************************************************)
\* The effect of line 530: createStarVisualization runs up to its await of
\* loadStarData, which runs up to its await of readFile or, without a file
\* system, to its end; then the resize listener is added (line 533).
Mount ==
    /\ pc = "mount"
    /\ resizeListener' = TRUE
    /\ IF fsEnv.available
       THEN /\ pc' = "awaitRead"
            /\ loading' = TRUE
            /\ error' = ""
            /\ UNCHANGED <<starCount, starData>>
       ELSE LET r == loadStarData(fsEnv)
            IN  /\ pc' = "awaitLoad"
                /\ loading' = r.loading
                /\ error' = r.error
                /\ starCount' = r.starCount
                /\ starData' = r.starData
    /\ UNCHANGED <<fsEnv, appearance, pointer, mounted, mountRef, starsGroup, rendererRef, domAttached,
                   disposed, keyListeners, loop, controls>>

\* readFile settles (line 179) and loadStarData runs to its end.
ReadFileSettles ==
    /\ pc = "awaitRead"
    /\ LET r == loadStarData(fsEnv)
       IN  /\ pc' = "awaitLoad"
           /\ loading' = r.loading
           /\ error' = r.error
           /\ starCount' = r.starCount
           /\ starData' = r.starData
    /\ UNCHANGED <<fsEnv, appearance, pointer, mounted, mountRef, starsGroup, rendererRef, domAttached,
                   disposed, keyListeners, resizeListener, loop, controls>>

\* createStarVisualization resumes after its await (lines 219-453): scene,
\* camera, renderer, key listeners, the stars, and the first call of animate.
\* With the div gone, mountRef.current.clientWidth throws (line 227).
BuildScene ==
    /\ pc = "awaitLoad"
    /\ IF ~mountRef
       THEN /\ pc' = "crashed"
            /\ UNCHANGED <<starsGroup, rendererRef, domAttached, keyListeners, loop, controls>>
       ELSE /\ rendererRef' = TRUE
            /\ domAttached' = TRUE
            /\ keyListeners' = TRUE
            /\ starsGroup' = Renderables(starData)
            /\ IF FirstNull(starData) # 0
               THEN /\ pc' = "crashed"
                    /\ UNCHANGED <<loop, controls>>
               ELSE /\ pc' = "running"
                    /\ frameRef' = TRUE
                    /\ rafPending' = TRUE
                    /\ FrameBody
    /\ UNCHANGED <<fsEnv, appearance, pointer, mounted, mountRef, loading, error, starCount, starData,
                   disposed, resizeListener>>

\* The browser runs the scheduled animate callback, which schedules itself
\* again (line 356) and computes one frame.
Animate ==
    /\ rafPending
    /\ frameRef' = TRUE
    /\ rafPending' = TRUE
    /\ FrameBody
    /\ UNCHANGED <<fsEnv, appearance, pointer, lifecycle>>

\* handleKeyDown and handleKeyUp are constants of the createStarVisualization
\* callback (lines 247, 256); the cleanup closure of the effect (lines
\* 535-548) is outside that scope, so evaluating the argument of line 537
\* throws a ReferenceError and the cleanup ends there.
KeyHandlersInScope == FALSE

\* The component unmounts: React clears the ref and runs the effect's
\* cleanup (lines 535-548); whether the ref is still set while the cleanup
\* runs depends on the React version.
Teardown ==
    /\ mounted
    /\ pc # "mount"
    /\ mounted' = FALSE
    /\ mountRef' = FALSE
    /\ resizeListener' = FALSE
    /\ IF ~KeyHandlersInScope
       THEN UNCHANGED <<keyListeners, frameRef, rafPending, domAttached, disposed>>
       ELSE /\ keyListeners' = FALSE
            /\ rafPending' = IF frameRef THEN FALSE ELSE rafPending
            /\ frameRef' = frameRef
            /\ \E refAtCleanup \in BOOLEAN :
                   LET release == refAtCleanup /\ mountRef /\ rendererRef
                   IN  /\ domAttached' = IF release THEN FALSE ELSE domAttached
                       /\ disposed' = IF release THEN TRUE ELSE disposed
    /\ UNCHANGED <<fsEnv, appearance, pointer, pc, loading, error, starCount, starData, starsGroup,
                   rendererRef, controls>>

\* the clamp without its lower limit
ClampZoomUpperOnly(z) == Min2(ZoomMax, z)

\* Math.max(10, Math.min(2000, targetZoom)) (line 514)
ClampZoom(z) == Max2(ZoomMin, Min2(ZoomMax, z))

\* handleWheel (lines 508-515): the new targetZoom
WheelTarget(z, tz, deltaY) ==
    LET zoomSpeed == RoundDiv(z, 10)
    IN  ClampZoom(tz + (IF deltaY > 0 THEN zoomSpeed ELSE -zoomSpeed))

\* onWheel of the mounted div (line 560)
Wheel(deltaY) ==
    /\ mounted
    /\ targetZoom' = WheelTarget(zoom, targetZoom, deltaY)
    /\ UNCHANGED <<fsEnv, appearance, pointer, lifecycle, loop, zoom, velocity, isAccelerating, keys,
                   isFlying, rotation, cameraYaw, orbitApplied>>

\* controls.keys['ShiftLeft'] || controls.keys['ShiftRight'] (lines 252, 261)
Accelerating(k) == "ShiftLeft" \in k \/ "ShiftRight" \in k

\* handleKeyDown (lines 247-254)
KeyDown(code) ==
    /\ keyListeners
    /\ keys' = keys \cup {code}
    /\ isAccelerating' = Accelerating(keys')
    /\ isFlying' = (keys' # {})
    /\ UNCHANGED <<fsEnv, appearance, pointer, lifecycle, loop, zoom, targetZoom, velocity,
                   rotation, cameraYaw, orbitApplied>>

\* handleKeyUp (lines 256-263)
KeyUp(code) ==
    /\ keyListeners
    /\ keys' = keys \ {code}
    /\ isAccelerating' = Accelerating(keys')
    /\ isFlying' = (keys' # {})
    /\ UNCHANGED <<fsEnv, appearance, pointer, lifecycle, loop, zoom, targetZoom, velocity,
                   rotation, cameraYaw, orbitApplied>>

(***************************************************************************)
(* Specifications.  The zoom pair (zoom, targetZoom) is written only by    *)
(* handleWheel and line 444, the velocity only by lines 404-417 from the   *)
(* keys, and neither reads the catalog; so the loader is checked over      *)
(* every file environment without input events, and the controls over one  *)
(* environment with them.                                                  *)
(***************************************************************************)
Init == InitWith(FsEnvs)

Next ==
    \/ Mount
    \/ ReadFileSettles
    \/ BuildScene
    \/ Animate
    \/ Teardown

Spec == Init /\ [][Next]_vars

\* a data.json holding a bare array of two records
ControlEnvs == {Doc(JArray(<<StarRec(1), StarRec(1)>>))}
InitControls == InitWith(ControlEnvs)

WheelDeltas == {-1, 0, 1}

NextZoom ==
    \/ Mount
    \/ ReadFileSettles
    \/ BuildScene
    \/ Animate
    \/ Teardown
    \/ \E d \in WheelDeltas : Wheel(d)

ZoomSpec == InitControls /\ [][NextZoom]_vars

FlightKeys == {"KeyW", "ArrowDown", "ShiftLeft"}

NextFlight ==
    \/ Mount
    \/ ReadFileSettles
    \/ BuildScene
    \/ Animate
    \/ \E c \in FlightKeys : KeyDown(c)
    \/ \E c \in FlightKeys : KeyUp(c)

FlightSpec == InitControls /\ [][NextFlight]_vars

\* requestAnimationFrame runs a scheduled callback
FairFlightSpec == FlightSpec /\ WF_vars(Animate)

\* the pointer positions of the modelled mouse events
Pixels == {0, 100, 300}

\* onMouseDown of the mounted div: handleMouseDown (lines 458-463)
handleMouseDown(clientX, clientY) ==
    /\ mounted
    /\ mouseDown' = TRUE
    /\ mouseX' = clientX
    /\ mouseY' = clientY
    /\ UNCHANGED <<fsEnv, appearance, lifecycle, loop, controls, hoveredStar>>

\* onMouseUp of the mounted div: handleMouseUp (lines 465-467)
handleMouseUp ==
    /\ mounted
    /\ mouseDown' = FALSE
    /\ UNCHANGED <<fsEnv, appearance, lifecycle, loop, controls, mouseX, mouseY, hoveredStar>>

\* Math.max(-Math.PI / 2, Math.min(Math.PI / 2, targetRotationX)) (line 488)
ClampRotationX(r) == Max2(-HalfPi, Min2(HalfPi, r))

\* camera, raycaster and mouse refs are set with the renderer (lines 232-244)
SceneRefs == mountRef /\ rendererRef

\* the raycast of lines 495-505: null or the userData of a mesh of the group;
\* which one depends on the projection of the scene under the pointer
Hover == hoveredStar' \in 0..Len(starsGroup)

\* handleMouseMove with the orbit block entered whatever the button state
handleMouseMoveAlwaysDrags(clientX, clientY) ==
    /\ mounted
    /\ IF ~SceneRefs
       THEN UNCHANGED <<targetRotationX, targetRotationY, pointer>>
       ELSE /\ targetRotationY' = targetRotationY + (clientX - mouseX) * PixelTurn
            /\ targetRotationX' =
                   ClampRotationX(targetRotationX + (clientY - mouseY) * PixelTurn)
            /\ mouseX' = clientX
            /\ mouseY' = clientY
            /\ -(MaxYaw * HalfPi) <= targetRotationY'
            /\ targetRotationY' <= MaxYaw * HalfPi
            /\ UNCHANGED mouseDown
            /\ Hover
    /\ UNCHANGED <<fsEnv, appearance, lifecycle, loop, zoom, targetZoom, velocity,
                   isAccelerating, keys, isFlying, currentRotationX, currentRotationY,
                   cameraYaw, orbitApplied>>

\* onMouseMove of the mounted div: handleMouseMove (lines 469-506).  The
\* horizontal target is unbounded in the code; the model follows it within
\* MaxYaw quarter turns.
handleMouseMove(clientX, clientY) ==
    /\ mounted
    /\ IF ~SceneRefs
       THEN UNCHANGED <<targetRotationX, targetRotationY, pointer>>
       ELSE /\ IF mouseDown
               THEN /\ targetRotationY' = targetRotationY + (clientX - mouseX) * PixelTurn
                    /\ targetRotationX' =
                           ClampRotationX(targetRotationX + (clientY - mouseY) * PixelTurn)
                    /\ mouseX' = clientX
                    /\ mouseY' = clientY
                    /\ -(MaxYaw * HalfPi) <= targetRotationY'
                    /\ targetRotationY' <= MaxYaw * HalfPi
               ELSE UNCHANGED <<targetRotationX, targetRotationY, mouseX, mouseY>>
            /\ UNCHANGED mouseDown
            /\ Hover
    /\ UNCHANGED <<fsEnv, appearance, lifecycle, loop, zoom, targetZoom, velocity,
                   isAccelerating, keys, isFlying, currentRotationX, currentRotationY,
                   cameraYaw, orbitApplied>>

\* const color = getStarColor(star.bv, star.spectralClass) (line 302)
ColorStar ==
    /\ starColor = <<>>
    /\ starColor' \in getStarColor(starInput.bv, starInput.spectralClass)
    /\ UNCHANGED <<fsEnv, lifecycle, loop, controls, pointer, starInput>>

\* The rotation targets are written only by handleMouseMove and read only
\* by the smoothing of animate, which writes neither them nor the pointer
\* state; the mouse handlers are checked with the lifecycle.
NextMouse ==
    \/ Mount
    \/ ReadFileSettles
    \/ BuildScene
    \/ Teardown
    \/ \E x \in Pixels, y \in Pixels : handleMouseDown(x, y)
    \/ handleMouseUp
    \/ \E x \in Pixels, y \in Pixels : handleMouseMove(x, y)

MouseSpec == InitControls /\ [][NextMouse]_vars

\* getStarColor over every drawn pair of bv and spectralClass
InitColor == InitState(ControlEnvs, StarInputs)
NextColor == ColorStar
ColorSpec == InitColor /\ [][NextColor]_vars

(***************************************************************************)
(* Properties.                                                             *)
(***************************************************************************)
\* loadStarData has resolved
Resolved == pc \in {"awaitLoad", "running", "crashed"}

\* the parsed value is no array and has neither a stars nor a catalog array
UnrecognizedShape(v) == v.kind # "array" /\ v.stars.kind # "array" /\ v.catalog.kind # "array"

\* a failure of the file read path: no file capability, readFile rejecting,
\* a JSON parse failure, or a parsed value of unrecognized shape
ReadPathFails ==
    \/ ~fsEnv.available
    \/ fsEnv.rejects
    \/ ~fsEnv.wellFormed
    \/ UnrecognizedShape(fsEnv.doc)

\* C1: in every reachable state targetZoom lies within [10, 2000] (here in
\* units of 5), whatever wheel events and frames came before.
C1_TargetZoomClamped == ZoomMin <= targetZoom /\ targetZoom <= ZoomMax

\* the lower clamp has acted: the target sits on the minimum while the
\* render loop runs and the zoom has followed it down
C1_Witness == targetZoom = ZoomMin /\ rafPending /\ zoom < InitialZoom

\* the movement vector of the next frame is zero
MoveIdle == MoveVector(keys, isAccelerating) = Zero

\* C2: a frame without movement input either sets the velocity to exactly
\* zero or strictly shrinks it and leaves it at or above the 0.1 threshold
\* (never a residue below it); a zero velocity stays zero while the movement
\* vector is zero; the velocity is bounded, so the shrinking takes a bounded
\* number of frames; and if the movement vector is eventually zero for good,
\* the velocity is eventually zero for good.
C2_VelocityDecaysToZero ==
    /\ [][(Animate /\ MoveIdle) =>
             \/ velocity' = Zero
             \/ /\ Len2(velocity') < Len2(velocity)
                /\ Len2(velocity') >= VelThreshold * VelThreshold]_vars
    /\ [][(velocity = Zero /\ MoveIdle) => velocity' = Zero]_vars
    /\ [](\A i \in 1..3 : -acceleratedSpeed <= velocity[i] /\ velocity[i] <= acceleratedSpeed)
    /\ (<>[]MoveIdle => <>[](velocity = Zero))

\* every key is released and the camera still coasts, within two thresholds
\* of the reset
C2_Witness ==
    /\ keys = {}
    /\ velocity # Zero
    /\ Len2(velocity) < 4 * VelThreshold * VelThreshold

\* C3: after teardown no animate callback is pending and a created renderer
\* is released (its DOM element removed, dispose called).
C3_TeardownStopsLoop ==
    ~mounted => /\ ~rafPending
                /\ (rendererRef => disposed /\ ~domAttached)

\* the catalog is the ten named stars followed by 2000 generated ones
IsFallbackCatalog(c) ==
    /\ Len(c) = 2010
    /\ \A i \in 1..10 : c[i].name = famousStars[i] /\ ~c[i].hasId
    /\ \A i \in 11..2010 :
           /\ c[i].name = "Star-" \o ToString(i - 11)
           /\ c[i].hasId /\ c[i].id = i - 1

\* C4: for every failure of the file read path, loadStarData resolves with
\* the fallback catalog of exactly 2010 records, the 10 named stars first.
C4_FallbackOnFailure == (Resolved /\ ReadPathFails) => IsFallbackCatalog(starData)

\* a malformed data.json was read and the load resolved with 2010 records
C4_Witness == Resolved /\ fsEnv = Malformed /\ Len(starData) = 2010

\* C5: the catalog loadStarData resolves with is never empty.
C5_CatalogNonEmpty == Resolved => Len(starData) >= 1

\* C6: when the read path fails and the fallback is substituted, the error
\* state shown to the user is a non-empty message.
C6_LoadErrorSurfaced == (Resolved /\ ReadPathFails) => error # ""

\* C7: a well formed file { "catalog": L } or { "stars": L } loads the same
\* catalog L and count Len(L) as the bare array L; a parsed value of
\* unrecognized shape is replaced by the fallback.
C7_ShapesAcceptedAlike ==
    (Resolved /\ fsEnv.available /\ ~fsEnv.rejects /\ fsEnv.wellFormed) =>
        LET v == fsEnv.doc
        IN  /\ v.kind = "array" => starData = v.items /\ starCount = Len(v.items)
            /\ (v.kind = "object" /\ v.catalog.kind = "array" /\ v.stars = Undefined) =>
                   starData = v.catalog.items /\ starCount = Len(v.catalog.items)
            /\ (v.kind = "object" /\ v.stars.kind = "array" /\ v.catalog = Undefined) =>
                   starData = v.stars.items /\ starCount = Len(v.stars.items)
            /\ UnrecognizedShape(v) =>
                   starData = generateSampleStarData /\ starCount = 2010

\* { "catalog": [star 1, star 2] } was loaded and two stars are reported
C7_Witness ==
    /\ Resolved
    /\ fsEnv = Doc(JObject(Undefined, Member("array", <<StarRec(1), StarRec(2)>>)))
    /\ starCount = 2

\* C8: once the scene is built, the stars group holds exactly one renderable
\* per record of the loaded catalog, in order, and their number is the
\* displayed starCount.
C8_OneRenderablePerRecord ==
    pc = "running" =>
        /\ Len(starsGroup) = Len(starData)
        /\ Len(starData) = starCount
        /\ \A i \in 1..Len(starsGroup) :
               starsGroup[i].star = starData[i] /\ starsGroup[i].index = i - 1

\* the scene was built from the fallback catalog
C8_Witness == pc = "running" /\ ReadPathFails /\ Len(starsGroup) = 2010

\* C9: while loading is true there is no renderer, no key listener, no star
\* mesh and no animate callback, so no frame runs; and loading is false in
\* every state after loadStarData has resolved.
C9_SceneAfterLoad ==
    /\ loading => /\ ~rendererRef /\ ~domAttached /\ ~keyListeners
                  /\ ~frameRef /\ ~rafPending
                  /\ starsGroup = <<>>
    /\ Resolved => ~loading

\* the render loop runs after a read that had to be awaited
C9_Witness == pc = "running" /\ rafPending /\ fsEnv.available /\ orbitApplied /\ ~loading

\* C10: a frame copies the orbit position into the camera exactly when,
\* after its velocity update, the velocity magnitude is below 0.1 and none
\* of KeyW, KeyS, KeyA, KeyD is held.
C10_OrbitIffSlowAndNoWASD ==
    [][(Animate \/ (BuildScene /\ pc' = "running")) =>
          (orbitApplied' <=>
              /\ Len2(velocity') < VelThreshold * VelThreshold
              /\ keys \cap {"KeyW", "KeyS", "KeyA", "KeyD"} = {})]_vars

\* the orbit position was applied with an arrow key held and a residue of
\* velocity below the threshold
C10_Witness == orbitApplied /\ "ArrowDown" \in keys /\ velocity # Zero

\* the movement keys animate reads (lines 366-383)
MovementKeys ==
    {"KeyW", "KeyA", "KeyS", "KeyD", "ArrowUp", "ArrowDown", "ArrowLeft", "ArrowRight",
     "KeyQ", "KeyE", "Space", "ControlLeft"}

\* C13: the flight indicator isFlying is on exactly when at least one
\* movement key (W/A/S/D, an arrow, Q, E, Space, ControlLeft) is held; with
\* only Shift or an unrelated key held it shows orbit.
C13_FlyingIffMovementKeyHeld == isFlying <=> (keys \cap MovementKeys # {})

\* a step that runs one frame of animate
FrameStep == Animate \/ (BuildScene /\ pc' = "running")

\* C14: the smoothed zoom stays within [10, 2000] (here in units of 5) in
\* every reachable state, and a frame moves it toward targetZoom without
\* passing it.
C14_ZoomSmoothedInRange ==
    /\ [](ZoomMin <= zoom /\ zoom <= ZoomMax)
    /\ [][FrameStep =>
             /\ (zoom <= targetZoom => zoom <= zoom' /\ zoom' <= targetZoom)
             /\ (zoom >= targetZoom => targetZoom <= zoom' /\ zoom' <= zoom)]_vars

\* the zoom has followed the target up to the upper clamp
C14_Witness == targetZoom = ZoomMax /\ zoom > ZoomMax - 5 /\ rafPending

\* the six triples of the B-V bands, in tenths
BandTriples ==
    {<<6, 8, 10>>, <<8, 9, 10>>, <<10, 10, 10>>, <<10, 10, 7>>, <<10, 7, 4>>, <<10, 5, 3>>}

\* the band a B-V index falls in, by the thresholds -0.4, 0, 0.5, 1.0, 1.5
BandTriple(v) ==
    CASE v < -4 -> <<6, 8, 10>>
      [] -4 <= v /\ v < 0 -> <<8, 9, 10>>
      [] 0 <= v /\ v < 5 -> <<10, 10, 10>>
      [] 5 <= v /\ v < 10 -> <<10, 10, 7>>
      [] 10 <= v /\ v < 15 -> <<10, 7, 4>>
      [] 15 <= v -> <<10, 5, 3>>

SpectralLetters == {"O", "B", "A", "F", "G", "K", "M"}
\* upper and lower case forms of a first letter, read without toUpperCase
LetterOf(c) ==
    CASE c \in {"O", "o"} -> "O" [] c \in {"B", "b"} -> "B" [] c \in {"A", "a"} -> "A"
      [] c \in {"F", "f"} -> "F" [] c \in {"G", "g"} -> "G" [] c \in {"K", "k"} -> "K"
      [] c \in {"M", "m"} -> "M" [] OTHER -> "other"

\* getStarColor was called on a record without bv whose class has a first letter
ColoredByClass ==
    /\ starColor # <<>>
    /\ ~starInput.bv.defined
    /\ starInput.spectralClass.defined
    /\ starInput.spectralClass.chars # <<>>

\* C11 as claimed: without a B-V index every spectral letter O, B, A, F, G, K,
\* M (either case) gives one of the six B-V band triples and any other first
\* letter gives white; with a B-V index the band colour is used whatever the
\* spectral class.
C11_ClassColorInBandPalette ==
    /\ ColoredByClass =>
           LET l == LetterOf(starInput.spectralClass.chars[1])
           IN  /\ l \in SpectralLetters => starColor \in BandTriples
               /\ l \notin SpectralLetters => starColor = <<10, 10, 10>>
    /\ (starColor # <<>> /\ starInput.bv.defined) => starColor = BandTriple(starInput.bv.val)

\* C11 as amended: as claimed for O, B, A, G, K, M and the other letters;
\* F (either case) gives the seventh triple (1.0, 1.0, 0.9), which is none
\* of the band triples.
C11_ClassColorSevenEntries ==
    /\ ColoredByClass =>
           LET l == LetterOf(starInput.spectralClass.chars[1])
           IN  /\ l \in SpectralLetters \ {"F"} => starColor \in BandTriples
               /\ l = "F" => starColor = <<10, 10, 9>>
               /\ l \notin SpectralLetters => starColor = <<10, 10, 10>>
    /\ (starColor # <<>> /\ starInput.bv.defined) => starColor = BandTriple(starInput.bv.val)

\* a class written in lower case, f5, was coloured without a B-V index
C11_Witness ==
    /\ ColoredByClass
    /\ starInput.spectralClass.chars = <<"f", "5">>
    /\ starColor = <<10, 10, 9>>

\* a mouse-move event is handled
MouseMoveStep == \E x \in Pixels, y \in Pixels : handleMouseMove(x, y)

\* C12: after any sequence of mouse-down, mouse-move and mouse-up events the
\* vertical rotation target targetRotationX lies within [-pi/2, +pi/2], and
\* a mouse-move while the button is not down leaves both rotation targets
\* unchanged.
C12_DragClampedAndNeedsButton ==
    /\ [](-HalfPi <= targetRotationX /\ targetRotationX <= HalfPi)
    /\ [][(MouseMoveStep /\ ~mouseDown) =>
              UNCHANGED <<targetRotationX, targetRotationY>>]_vars

\* a drag reached the upper clamp and the button was released
C12_Witness ==
    /\ targetRotationX = HalfPi
    /\ targetRotationY # 0
    /\ ~mouseDown
    /\ mouseY = 300

=============================================================================
